---- MODULE Spec2Model ----
(***************************************************************************)
(* Fitness Tracker API (src/app.py) over the four tables of src/models.py. *)
(*                                                                         *)
(* The store is the SQLite database behind the SQLAlchemy session: four    *)
(* tables, each kept as the sequence of its rows in rowid order (the order *)
(* an unordered SELECT scans them in).  Every handler of app.py is one     *)
(* action that reads the store, changes it and produces an HTTP response.  *)
(* Column values other than the integer keys are opaque tokens (strings);  *)
(* NULL is the SQL NULL / Python None.  User.created_at is set by the      *)
(* store's clock and read by no handler; it is not carried in the rows.    *)
(*                                                                         *)
(* Spec       the creating, deleting and get-by-id handlers, one request   *)
(*            at a time, from the empty database.                          *)
(* SpecList   the four list handlers against populated stores.             *)
(* SpecUpdate PATCH /workouts/{id} against populated stores.               *)
(* SpecConc   the creating and cascading handlers with two requests in     *)
(*            flight, each split at its db.commit().                       *)
(***************************************************************************)
EXTENDS Integers, Sequences, FiniteSets, TLC

VARIABLES users, workouts, exercises, meals, req, resp, pend

tables == <<users, workouts, exercises, meals>>
vars == <<users, workouts, exercises, meals, req, resp, pend>>

(* ------------------------------ bounds -------------------------------- *)

\* Largest id a table hands out in the model.
MaxUsers == 2
MaxWorkouts == 1
MaxExercises == 1
MaxMeals == 1
\* Rows per table in the stores the list requests are run against.
MaxRows == 2
\* Largest offset and the explicit limits a list request carries.
MaxSkip == 2
MaxLimit == 2

(* ----------------------------- constants ------------------------------ *)

NULL == "NULL"
UNSET == "UNSET"
DefaultSkip == 0
DefaultLimit == 100

HTTP_201_CREATED == 201
HTTP_204_NO_CONTENT == 204
HTTP_400_BAD_REQUEST == 400
HTTP_404_NOT_FOUND == 404

(* ------------------------------ helpers ------------------------------- *)

Min(a, b) == IF a <= b THEN a ELSE b

Range(s) == {s[i] : i \in 1..Len(s)}

\* Python truthiness of an Optional[int] query parameter ({} is None).
Truthy(opt) == \E k \in opt : k # 0

\* Integer primary key without AUTOINCREMENT: SQLite assigns max(rowid) + 1.
NextId(rows) == IF rows = <<>> THEN 1 ELSE rows[Len(rows)].id + 1

\* query.filter(<T>.id == id).first()
ById(rows, id) == SelectSeq(rows, LAMBDA r : r.id = id)

\* DELETE of the rows whose id is in ids.
Without(rows, ids) == SelectSeq(rows, LAMBDA r : r.id \notin ids)

\* query.offset(skip).limit(limit).all()
\* (fault variant: the limit is applied before the offset)
PageMutantLimitFirst(rows, skip, limit) == SubSeq(rows, skip + 1, Min(Len(rows), limit))

Page(rows, skip, limit) == SubSeq(rows, skip + 1, Min(Len(rows), skip + limit))

\* query.filter(<T>.<fk> == k), applied only when the parameter is truthy.
FilterBy(rows, fk, opt) ==
    IF Truthy(opt) THEN SelectSeq(rows, LAMBDA r : r[fk] \in opt) ELSE rows

(* ----------------------------- responses ------------------------------ *)

Ok(code, body) == [status |-> code, detail |-> "", body |-> body]
HTTPException(code, detail) == [status |-> code, detail |-> detail, body |-> <<>>]
\* An exception no handler catches: FastAPI answers 500.
ServerError(what) == [status |-> 500, detail |-> what, body |-> <<>>]

\* The last request answered: the handler, its id (path id, or the parent id
\* of a create), its query parameters, the body of a PATCH, and the rows its
\* session deleted.
NoRows == [users |-> {}, workouts |-> {}, exercises |-> {}, meals |-> {}]
NoBody == <<>>

Request(op, id) ==
    [op |-> op, id |-> id, filter |-> {}, skip |-> DefaultSkip, limit |-> DefaultLimit,
     body |-> NoBody, deleted |-> NoRows]

ListRequest(op, opt, skip, limit) ==
    [op |-> op, id |-> 0, filter |-> opt, skip |-> skip, limit |-> limit,
     body |-> NoBody, deleted |-> NoRows]

UpdateRequest(op, id, upd) ==
    [op |-> op, id |-> id, filter |-> {}, skip |-> DefaultSkip, limit |-> DefaultLimit,
     body |-> upd, deleted |-> NoRows]

DeleteRequest(op, id, del) ==
    [op |-> op, id |-> id, filter |-> {}, skip |-> DefaultSkip, limit |-> DefaultLimit,
     body |-> NoBody, deleted |-> del]

(* ------------------------------ inputs -------------------------------- *)

Emails == {"ann@x.com", "bob@x.com"}
GoogleIds == {NULL, "g-1"}

\* UserCreate bodies that pass validation.
UserCreates == [name : {"Ann"}, email : Emails, google_id : GoogleIds]

\* Path and body ids a caller may send: 0 (never a row's id) and every id a
\* table can hold.
UserIds == 0..MaxUsers
WorkoutIds == 0..MaxWorkouts
ExerciseIds == 0..MaxExercises
MealIds == 0..MaxMeals

\* WorkoutCreate bodies; distance_km and avg_pace are left at their default None.
WorkoutCreates ==
    [user_id : UserIds, type : {"run"}, duration_min : {"30"}, distance_km : {NULL},
     avg_pace : {NULL}, date : {"2024-01-01"}, is_starred : {"false"}]

ExerciseCreates ==
    [workout_id : WorkoutIds, name : {"pushup"}, sets : {"3"}, reps : {"10"}, weight : {"0"}]

MealCreates ==
    [user_id : UserIds, name : {"oats"}, calories : {"300"}, protein : {"10"},
     carbs : {"50"}, fat : {"5"}, date : {"2024-01-01"}]

\* The fields of WorkoutUpdate, and a body as the value sent for each field or UNSET.
UpdateFields == {"type", "duration_min", "distance_km", "avg_pace", "date", "is_starred"}

WorkoutUpdates ==
    [type : {UNSET, NULL, "lift"}, duration_min : {UNSET, NULL, "45"},
     distance_km : {UNSET, NULL, "5.0"}, avg_pace : {UNSET, NULL, "6.5"},
     date : {UNSET, NULL, "2024-02-02"}, is_starred : {UNSET, NULL, "true"}]

\* workout_update.model_dump(exclude_unset=True): the fields the caller sent.
model_dump_exclude_unset(upd) ==
    [f \in {g \in UpdateFields : upd[g] # UNSET} |-> upd[f]]

\* Offsets and limits a list request carries (the default limit included).
Skips == 0..MaxSkip
Limits == (0..MaxLimit) \cup {DefaultLimit}

(* --------------------------- store operations ------------------------- *)

\* db.query(User).filter(User.email == email).first() is not None
\* (fault variant: the lookup finds nothing)
EmailRegisteredMutantNever(rows, email) == FALSE

EmailRegistered(rows, email) == \E i \in 1..Len(rows) : rows[i].email = email

\* The UNIQUE constraints of the users table; SQL NULLs never collide.
UniqueViolated(rows, u) ==
    \E i \in 1..Len(rows) :
        \/ rows[i].email = u.email
        \/ (u.google_id # NULL /\ rows[i].google_id = u.google_id)

\* The NOT NULL columns of the workouts table that an update can reach.
WorkoutNotNull == {"type", "duration_min", "date"}

NotNullViolated(row) == \E f \in WorkoutNotNull : row[f] = NULL

\* WorkoutResponse validates the returned row: is_starred must be a bool.
ResponseInvalid(row) == row.is_starred = NULL

\* The rows db.delete(user) marks: the user, its workouts and meals, and the
\* exercises of those workouts (cascade="all, delete-orphan").
\* (fault variant: the exercises of the user's workouts are not marked)
CascadeUserMutantWorkoutsOnly(id) ==
    [users |-> {id},
     workouts |-> {w.id : w \in {x \in Range(workouts) : x.user_id = id}},
     exercises |-> {},
     meals |-> {m.id : m \in {x \in Range(meals) : x.user_id = id}}]

CascadeUser(id) ==
    LET wids == {w.id : w \in {x \in Range(workouts) : x.user_id = id}}
    IN  [users |-> {id},
         workouts |-> wids,
         exercises |-> {e.id : e \in {x \in Range(exercises) : x.workout_id \in wids}},
         meals |-> {m.id : m \in {x \in Range(meals) : x.user_id = id}}]

\* The rows db.delete(workout) marks: the workout and its exercises.
CascadeWorkout(id) ==
    [users |-> {},
     workouts |-> {id},
     exercises |-> {e.id : e \in {x \in Range(exercises) : x.workout_id = id}},
     meals |-> {}]

CascadeExercise(id) == [NoRows EXCEPT !.exercises = {id}]

CascadeMeal(id) == [NoRows EXCEPT !.meals = {id}]

\* db.commit() of a delete: the marked rows leave their tables.
CommitDelete(del) ==
    /\ users' = Without(users, del.users)
    /\ workouts' = Without(workouts, del.workouts)
    /\ exercises' = Without(exercises, del.exercises)
    /\ meals' = Without(meals, del.meals)
    /\ resp' = Ok(HTTP_204_NO_CONTENT, <<>>)

\* db.add(db_user); db.commit(); db.refresh(db_user)
CommitUser(u) ==
    IF UniqueViolated(users, u)
    THEN /\ resp' = ServerError("IntegrityError")
         /\ UNCHANGED tables
    ELSE LET row == [id |-> NextId(users), name |-> u.name, email |-> u.email,
                     google_id |-> u.google_id]
         IN  /\ row.id <= MaxUsers
             /\ users' = Append(users, row)
             /\ resp' = Ok(HTTP_201_CREATED, <<row>>)
             /\ UNCHANGED <<workouts, exercises, meals>>

\* db.add(db_workout); db.commit(); db.refresh(db_workout).  The engine is
\* opened without PRAGMA foreign_keys, so SQLite does not check user_id.
CommitWorkout(w) ==
    LET row == [id |-> NextId(workouts), user_id |-> w.user_id, type |-> w.type,
                duration_min |-> w.duration_min, distance_km |-> w.distance_km,
                avg_pace |-> w.avg_pace, date |-> w.date, is_starred |-> w.is_starred]
    IN  /\ row.id <= MaxWorkouts
        /\ workouts' = Append(workouts, row)
        /\ resp' = Ok(HTTP_201_CREATED, <<row>>)
        /\ UNCHANGED <<users, exercises, meals>>

CommitExercise(e) ==
    LET row == [id |-> NextId(exercises), workout_id |-> e.workout_id, name |-> e.name,
                sets |-> e.sets, reps |-> e.reps, weight |-> e.weight]
    IN  /\ row.id <= MaxExercises
        /\ exercises' = Append(exercises, row)
        /\ resp' = Ok(HTTP_201_CREATED, <<row>>)
        /\ UNCHANGED <<users, workouts, meals>>

CommitMeal(m) ==
    LET row == [id |-> NextId(meals), user_id |-> m.user_id, name |-> m.name,
                calories |-> m.calories, protein |-> m.protein, carbs |-> m.carbs,
                fat |-> m.fat, date |-> m.date]
    IN  /\ row.id <= MaxMeals
        /\ meals' = Append(meals, row)
        /\ resp' = Ok(HTTP_201_CREATED, <<row>>)
        /\ UNCHANGED <<users, workouts, exercises>>

\* for key, value in update_data.items(): setattr(workout, key, value)
\* (fault variant: fields the caller did not send are set to None)
SetAttrsMutantAllFields(row, data) ==
    LET new(f) == IF f \in DOMAIN data THEN data[f] ELSE NULL
    IN  [id |-> row.id, user_id |-> row.user_id, type |-> new("type"),
         duration_min |-> new("duration_min"), distance_km |-> new("distance_km"),
         avg_pace |-> new("avg_pace"), date |-> new("date"),
         is_starred |-> new("is_starred")]

SetAttrs(row, data) ==
    LET new(f) == IF f \in DOMAIN data THEN data[f] ELSE row[f]
    IN  [id |-> row.id, user_id |-> row.user_id, type |-> new("type"),
         duration_min |-> new("duration_min"), distance_km |-> new("distance_km"),
         avg_pace |-> new("avg_pace"), date |-> new("date"),
         is_starred |-> new("is_starred")]

\* The table after the UPDATE of one row (the row keeps its id and its place).
Replace(rows, row) ==
    LET i == CHOOSE j \in 1..Len(rows) : rows[j].id = row.id
    IN  SubSeq(rows, 1, i - 1) \o <<row>> \o SubSeq(rows, i + 1, Len(rows))

(* ------------------------------ handlers ------------------------------ *)

\* What GET /users/{id}, GET /workouts/{id} and GET /meals/{id} answer.
get_user_response(id) ==
    IF ById(users, id) = <<>>
    THEN HTTPException(HTTP_404_NOT_FOUND, "User not found")
    ELSE Ok(200, ById(users, id))

get_workout_response(id) ==
    IF ById(workouts, id) = <<>>
    THEN HTTPException(HTTP_404_NOT_FOUND, "Workout not found")
    ELSE IF ResponseInvalid(ById(workouts, id)[1])
    THEN ServerError("ResponseValidationError")
    ELSE Ok(200, ById(workouts, id))

get_meal_response(id) ==
    IF ById(meals, id) = <<>>
    THEN HTTPException(HTTP_404_NOT_FOUND, "Meal not found")
    ELSE Ok(200, ById(meals, id))

\* What GET /exercises answers.
get_exercises_response(workout_id, skip, limit) ==
    Ok(200, Page(FilterBy(exercises, "workout_id", workout_id), skip, limit))

Quiet == UNCHANGED pend

\* POST /users
create_user(u) ==
    /\ req' = Request("create_user", 0)
    /\ IF EmailRegistered(users, u.email)
       THEN /\ resp' = HTTPException(HTTP_400_BAD_REQUEST, "Email already registered")
            /\ UNCHANGED tables
       ELSE CommitUser(u)
    /\ Quiet

\* GET /users
get_users(skip, limit) ==
    /\ req' = ListRequest("get_users", {}, skip, limit)
    /\ resp' = Ok(200, Page(users, skip, limit))
    /\ UNCHANGED tables
    /\ Quiet

\* GET /users/{user_id}
get_user(id) ==
    /\ req' = Request("get_user", id)
    /\ resp' = get_user_response(id)
    /\ UNCHANGED tables
    /\ Quiet

\* DELETE /users/{user_id}
delete_user(id) ==
    /\ IF ById(users, id) = <<>>
       THEN /\ req' = Request("delete_user", id)
            /\ resp' = HTTPException(HTTP_404_NOT_FOUND, "User not found")
            /\ UNCHANGED tables
       ELSE /\ req' = DeleteRequest("delete_user", id, CascadeUser(id))
            /\ CommitDelete(CascadeUser(id))
    /\ Quiet

\* (fault variant of POST /workouts: the user is not looked up)
create_workoutMutantNoCheck(w) ==
    /\ req' = Request("create_workout", w.user_id)
    /\ CommitWorkout(w)
    /\ Quiet

\* POST /workouts
create_workout(w) ==
    /\ req' = Request("create_workout", w.user_id)
    /\ IF ById(users, w.user_id) = <<>>
       THEN /\ resp' = HTTPException(HTTP_404_NOT_FOUND, "User not found")
            /\ UNCHANGED tables
       ELSE CommitWorkout(w)
    /\ Quiet

\* GET /workouts
get_workouts(user_id, skip, limit) ==
    /\ req' = ListRequest("get_workouts", user_id, skip, limit)
    /\ resp' = LET page == Page(FilterBy(workouts, "user_id", user_id), skip, limit)
               IN  IF \E i \in 1..Len(page) : ResponseInvalid(page[i])
                   THEN ServerError("ResponseValidationError")
                   ELSE Ok(200, page)
    /\ UNCHANGED tables
    /\ Quiet

\* GET /workouts/{workout_id}
get_workout(id) ==
    /\ req' = Request("get_workout", id)
    /\ resp' = get_workout_response(id)
    /\ UNCHANGED tables
    /\ Quiet

\* PATCH /workouts/{workout_id}
update_workout(id, upd) ==
    /\ req' = UpdateRequest("update_workout", id, upd)
    /\ IF ById(workouts, id) = <<>>
       THEN /\ resp' = HTTPException(HTTP_404_NOT_FOUND, "Workout not found")
            /\ UNCHANGED tables
       ELSE LET row == SetAttrs(ById(workouts, id)[1], model_dump_exclude_unset(upd))
            IN  IF NotNullViolated(row)
                THEN \* db.commit() raises; the session closes and rolls back.
                     /\ resp' = ServerError("IntegrityError")
                     /\ UNCHANGED tables
                ELSE \* committed; the response model then validates the row.
                     /\ workouts' = Replace(workouts, row)
                     /\ resp' = IF ResponseInvalid(row)
                                THEN ServerError("ResponseValidationError")
                                ELSE Ok(200, <<row>>)
                     /\ UNCHANGED <<users, exercises, meals>>
    /\ Quiet

\* DELETE /workouts/{workout_id}
delete_workout(id) ==
    /\ IF ById(workouts, id) = <<>>
       THEN /\ req' = Request("delete_workout", id)
            /\ resp' = HTTPException(HTTP_404_NOT_FOUND, "Workout not found")
            /\ UNCHANGED tables
       ELSE /\ req' = DeleteRequest("delete_workout", id, CascadeWorkout(id))
            /\ CommitDelete(CascadeWorkout(id))
    /\ Quiet

\* POST /exercises
create_exercise(e) ==
    /\ req' = Request("create_exercise", e.workout_id)
    /\ IF ById(workouts, e.workout_id) = <<>>
       THEN /\ resp' = HTTPException(HTTP_404_NOT_FOUND, "Workout not found")
            /\ UNCHANGED tables
       ELSE CommitExercise(e)
    /\ Quiet

\* GET /exercises
get_exercises(workout_id, skip, limit) ==
    /\ req' = ListRequest("get_exercises", workout_id, skip, limit)
    /\ resp' = get_exercises_response(workout_id, skip, limit)
    /\ UNCHANGED tables
    /\ Quiet

\* DELETE /exercises/{exercise_id}
delete_exercise(id) ==
    /\ IF ById(exercises, id) = <<>>
       THEN /\ req' = Request("delete_exercise", id)
            /\ resp' = HTTPException(HTTP_404_NOT_FOUND, "Exercise not found")
            /\ UNCHANGED tables
       ELSE /\ req' = DeleteRequest("delete_exercise", id, CascadeExercise(id))
            /\ CommitDelete(CascadeExercise(id))
    /\ Quiet

\* POST /meals
create_meal(m) ==
    /\ req' = Request("create_meal", m.user_id)
    /\ IF ById(users, m.user_id) = <<>>
       THEN /\ resp' = HTTPException(HTTP_404_NOT_FOUND, "User not found")
            /\ UNCHANGED tables
       ELSE CommitMeal(m)
    /\ Quiet

\* GET /meals
get_meals(user_id, skip, limit) ==
    /\ req' = ListRequest("get_meals", user_id, skip, limit)
    /\ resp' = Ok(200, Page(FilterBy(meals, "user_id", user_id), skip, limit))
    /\ UNCHANGED tables
    /\ Quiet

\* GET /meals/{meal_id}
get_meal(id) ==
    /\ req' = Request("get_meal", id)
    /\ resp' = get_meal_response(id)
    /\ UNCHANGED tables
    /\ Quiet

\* DELETE /meals/{meal_id}
delete_meal(id) ==
    /\ IF ById(meals, id) = <<>>
       THEN /\ req' = Request("delete_meal", id)
            /\ resp' = HTTPException(HTTP_404_NOT_FOUND, "Meal not found")
            /\ UNCHANGED tables
       ELSE /\ req' = DeleteRequest("delete_meal", id, CascadeMeal(id))
            /\ CommitDelete(CascadeMeal(id))
    /\ Quiet

(* --------------------- the API, one request at a time ----------------- *)

Clients == {"c1", "c2"}
Idle == [op |-> "idle", arg |-> <<>>]

EmptyStore ==
    /\ users = <<>>
    /\ workouts = <<>>
    /\ exercises = <<>>
    /\ meals = <<>>

Init ==
    /\ EmptyStore
    /\ req = Request("none", 0)
    /\ resp = Ok(200, <<>>)
    /\ pend = [c \in Clients |-> Idle]

Next ==
    \/ \E u \in UserCreates : create_user(u)
    \/ \E id \in UserIds : get_user(id)
    \/ \E id \in UserIds : delete_user(id)
    \/ \E w \in WorkoutCreates : create_workout(w)
    \/ \E id \in WorkoutIds : get_workout(id)
    \/ \E id \in WorkoutIds : delete_workout(id)
    \/ \E e \in ExerciseCreates : create_exercise(e)
    \/ \E id \in ExerciseIds : delete_exercise(id)
    \/ \E m \in MealCreates : create_meal(m)
    \/ \E id \in MealIds : get_meal(id)
    \/ \E id \in MealIds : delete_meal(id)

Spec == Init /\ [][Next]_vars

(* ------------------- list requests on populated stores ---------------- *)

\* Sequences over S of length at most n.
SeqsUpTo(S, n) == UNION {[1..k -> S] : k \in 0..n}

\* The store after POST /users twice, then one POST /workouts and one
\* POST /meals per entry of p (for that user), then one POST /exercises per
\* entry of q (for that workout).
PopulatedUsers ==
    << [id |-> 1, name |-> "Ann", email |-> "ann@x.com", google_id |-> NULL],
       [id |-> 2, name |-> "Ann", email |-> "bob@x.com", google_id |-> "g-1"] >>

PopulatedWorkouts(p) ==
    [i \in 1..Len(p) |->
        [id |-> i, user_id |-> p[i], type |-> "run", duration_min |-> "30",
         distance_km |-> NULL, avg_pace |-> NULL, date |-> "2024-01-01",
         is_starred |-> "false"]]

PopulatedMeals(p) ==
    [i \in 1..Len(p) |->
        [id |-> i, user_id |-> p[i], name |-> "oats", calories |-> "300",
         protein |-> "10", carbs |-> "50", fat |-> "5", date |-> "2024-01-01"]]

PopulatedExercises(q) ==
    [i \in 1..Len(q) |->
        [id |-> i, workout_id |-> q[i], name |-> "pushup", sets |-> "3",
         reps |-> "10", weight |-> "0"]]

\* Optional[int] filter parameters: absent ({}), or an integer.
ListFilters == {{}} \cup {{k} : k \in 0..(MaxRows + 1)}

InitList ==
    /\ users = PopulatedUsers
    /\ \E p \in SeqsUpTo({1, 2}, MaxRows) :
          /\ workouts = PopulatedWorkouts(p)
          /\ meals = PopulatedMeals(p)
          /\ \E q \in SeqsUpTo(1..Len(p), MaxRows) : exercises = PopulatedExercises(q)
    /\ req = Request("none", 0)
    /\ resp = Ok(200, <<>>)
    /\ pend = [c \in Clients |-> Idle]

\* A list request reads the store and changes nothing in it: a run is one
\* populated store and one request against it.
First == req.op = "none"

NextList ==
    \/ \E skip \in Skips, limit \in Limits : First /\ get_users(skip, limit)
    \/ \E k \in ListFilters, skip \in Skips, limit \in Limits :
          First /\ get_workouts(k, skip, limit)
    \/ \E k \in ListFilters, skip \in Skips, limit \in Limits :
          First /\ get_exercises(k, skip, limit)
    \/ \E k \in ListFilters, skip \in Skips, limit \in Limits :
          First /\ get_meals(k, skip, limit)

SpecList == InitList /\ [][NextList]_vars

(* ------------------ partial updates on a populated store -------------- *)

\* Rows POST /workouts and earlier PATCH requests can have left for workout 1
\* of user 1 (is_starred is NULL after a PATCH that sent null for it).
StoredWorkouts ==
    [id : {1}, user_id : {1}, type : {"run", "lift"}, duration_min : {"30"},
     distance_km : {NULL, "5.0"}, avg_pace : {NULL}, date : {"2024-01-01"},
     is_starred : {"false", NULL}]

\* The store after two POST /users, two POST /workouts (one per user, the
\* second with every optional field given), one POST /exercises and one
\* POST /meals, and any PATCH requests on workout 1.
InitUpdate ==
    /\ users = PopulatedUsers
    /\ \E w1 \in StoredWorkouts :
          workouts =
             << w1,
                [id |-> 2, user_id |-> 2, type |-> "swim", duration_min |-> "60",
                 distance_km |-> "2.0", avg_pace |-> "30.0", date |-> "2024-03-03",
                 is_starred |-> "true"] >>
    /\ exercises = PopulatedExercises(<<1>>)
    /\ meals = PopulatedMeals(<<2>>)
    /\ req = Request("none", 0)
    /\ resp = Ok(200, <<>>)
    /\ pend = [c \in Clients |-> Idle]

\* A run is one such store and one PATCH against it.
NextUpdate ==
    \E id \in 0..3, upd \in WorkoutUpdates : First /\ update_workout(id, upd)

SpecUpdate == InitUpdate /\ [][NextUpdate]_vars

(* -------------------- requests in flight concurrently ----------------- *)

\* FastAPI runs each def handler on a worker thread with a session of its
\* own (get_db).  A handler's SELECT and its later db.commit() are separate
\* statements against the shared database; another request's statements may
\* run between them.  begin_* is a handler up to its commit, finish its commit.

InFlight(c, op, arg) == pend' = [pend EXCEPT ![c] = [op |-> op, arg |-> arg]]
Done(c) == pend' = [pend EXCEPT ![c] = Idle]

begin_create_user(c, u) ==
    /\ pend[c].op = "idle"
    /\ UNCHANGED tables
    /\ IF EmailRegistered(users, u.email)
       THEN /\ req' = Request("create_user", 0)
            /\ resp' = HTTPException(HTTP_400_BAD_REQUEST, "Email already registered")
            /\ UNCHANGED pend
       ELSE /\ InFlight(c, "create_user", u)
            /\ UNCHANGED <<req, resp>>

begin_delete_user(c, id) ==
    /\ pend[c].op = "idle"
    /\ UNCHANGED tables
    /\ IF ById(users, id) = <<>>
       THEN /\ req' = Request("delete_user", id)
            /\ resp' = HTTPException(HTTP_404_NOT_FOUND, "User not found")
            /\ UNCHANGED pend
       ELSE /\ InFlight(c, "delete_user", CascadeUser(id))
            /\ UNCHANGED <<req, resp>>

begin_create_workout(c, w) ==
    /\ pend[c].op = "idle"
    /\ UNCHANGED tables
    /\ IF ById(users, w.user_id) = <<>>
       THEN /\ req' = Request("create_workout", w.user_id)
            /\ resp' = HTTPException(HTTP_404_NOT_FOUND, "User not found")
            /\ UNCHANGED pend
       ELSE /\ InFlight(c, "create_workout", w)
            /\ UNCHANGED <<req, resp>>

begin_delete_workout(c, id) ==
    /\ pend[c].op = "idle"
    /\ UNCHANGED tables
    /\ IF ById(workouts, id) = <<>>
       THEN /\ req' = Request("delete_workout", id)
            /\ resp' = HTTPException(HTTP_404_NOT_FOUND, "Workout not found")
            /\ UNCHANGED pend
       ELSE /\ InFlight(c, "delete_workout", CascadeWorkout(id))
            /\ UNCHANGED <<req, resp>>

begin_create_exercise(c, e) ==
    /\ pend[c].op = "idle"
    /\ UNCHANGED tables
    /\ IF ById(workouts, e.workout_id) = <<>>
       THEN /\ req' = Request("create_exercise", e.workout_id)
            /\ resp' = HTTPException(HTTP_404_NOT_FOUND, "Workout not found")
            /\ UNCHANGED pend
       ELSE /\ InFlight(c, "create_exercise", e)
            /\ UNCHANGED <<req, resp>>

begin_create_meal(c, m) ==
    /\ pend[c].op = "idle"
    /\ UNCHANGED tables
    /\ IF ById(users, m.user_id) = <<>>
       THEN /\ req' = Request("create_meal", m.user_id)
            /\ resp' = HTTPException(HTTP_404_NOT_FOUND, "User not found")
            /\ UNCHANGED pend
       ELSE /\ InFlight(c, "create_meal", m)
            /\ UNCHANGED <<req, resp>>

finish_create_user(c) ==
    /\ pend[c].op = "create_user"
    /\ req' = Request("create_user", 0)
    /\ CommitUser(pend[c].arg)
    /\ Done(c)

finish_delete_user(c) ==
    /\ pend[c].op = "delete_user"
    /\ req' = DeleteRequest("delete_user", CHOOSE id \in pend[c].arg.users : TRUE, pend[c].arg)
    /\ CommitDelete(pend[c].arg)
    /\ Done(c)

finish_create_workout(c) ==
    /\ pend[c].op = "create_workout"
    /\ req' = Request("create_workout", pend[c].arg.user_id)
    /\ CommitWorkout(pend[c].arg)
    /\ Done(c)

finish_delete_workout(c) ==
    /\ pend[c].op = "delete_workout"
    /\ req' = DeleteRequest("delete_workout", CHOOSE id \in pend[c].arg.workouts : TRUE, pend[c].arg)
    /\ CommitDelete(pend[c].arg)
    /\ Done(c)

finish_create_exercise(c) ==
    /\ pend[c].op = "create_exercise"
    /\ req' = Request("create_exercise", pend[c].arg.workout_id)
    /\ CommitExercise(pend[c].arg)
    /\ Done(c)

finish_create_meal(c) ==
    /\ pend[c].op = "create_meal"
    /\ req' = Request("create_meal", pend[c].arg.user_id)
    /\ CommitMeal(pend[c].arg)
    /\ Done(c)

NextConc ==
    \/ \E c \in Clients, u \in UserCreates : begin_create_user(c, u)
    \/ \E c \in Clients, id \in UserIds : begin_delete_user(c, id)
    \/ \E c \in Clients, w \in WorkoutCreates : begin_create_workout(c, w)
    \/ \E c \in Clients, id \in WorkoutIds : begin_delete_workout(c, id)
    \/ \E c \in Clients, e \in ExerciseCreates : begin_create_exercise(c, e)
    \/ \E c \in Clients, m \in MealCreates : begin_create_meal(c, m)
    \/ \E c \in Clients : finish_create_user(c)
    \/ \E c \in Clients : finish_delete_user(c)
    \/ \E c \in Clients : finish_create_workout(c)
    \/ \E c \in Clients : finish_delete_workout(c)
    \/ \E c \in Clients : finish_create_exercise(c)
    \/ \E c \in Clients : finish_create_meal(c)

SpecConc == Init /\ [][NextConc]_vars

(* ------------------------------- claims ------------------------------- *)

HasUser(id) == \E x \in Range(users) : x.id = id
HasWorkout(id) == \E x \in Range(workouts) : x.id = id

\* Every foreign key names a row of its parent table.
NoOrphans ==
    /\ \A w \in Range(workouts) : HasUser(w.user_id)
    /\ \A m \in Range(meals) : HasUser(m.user_id)
    /\ \A e \in Range(exercises) : HasWorkout(e.workout_id)

\* C1: a POST /users whose email is the email of an existing user is answered
\* 400 "Email already registered", changes no table, and every existing user
\* is afterwards still what GET /users/{id} returns.
C1_DuplicateEmailRejected ==
    [][\A u \in UserCreates :
          (/\ req'.op = "create_user"
           /\ \E x \in Range(users) : x.email = u.email
           /\ create_user(u))
          => /\ resp'.status = 400
             /\ resp'.detail = "Email already registered"
             /\ tables' = tables
             /\ \A x \in Range(users) : get_user_response(x.id)' = Ok(200, <<x>>)]_vars

\* A duplicate-email POST /users was refused while two users were stored.
C1_Witness ==
    /\ req.op = "create_user"
    /\ resp.status = 400
    /\ resp.detail = "Email already registered"
    /\ Len(users) = 2

\* C2: after DELETE /users/{u} answers 204 no workout and no meal has
\* user_id = u, no exercise belongs to a workout that was u's, GET on each of
\* those workouts answers 404 and GET /exercises lists none of those exercises.
C2_DeleteUserCascades ==
    [][(req'.op = "delete_user" /\ resp'.status = 204)
       => LET u == req'.id
          IN  /\ \A w \in Range(workouts') : w.user_id # u
              /\ \A m \in Range(meals') : m.user_id # u
              /\ \A w \in Range(workouts) :
                    w.user_id = u
                    => /\ get_workout_response(w.id)'.status = 404
                       /\ \A e \in Range(exercises') : e.workout_id # w.id
                       /\ \A e \in Range(exercises) :
                             e.workout_id = w.id
                             => e \notin Range(get_exercises_response({}, DefaultSkip, DefaultLimit)'.body)]_vars

\* A user owning a workout with an exercise, and a meal, was deleted while
\* another user stayed.
C2_Witness ==
    /\ req.op = "delete_user"
    /\ resp.status = 204
    /\ req.deleted.workouts # {}
    /\ req.deleted.exercises # {}
    /\ req.deleted.meals # {}
    /\ users # <<>>

\* C3: POST /workouts and POST /meals naming no existing user, and
\* POST /exercises naming no existing workout, are answered 404 and change no
\* table.
C3_MissingParentRejected ==
    [][/\ (req'.op \in {"create_workout", "create_meal"} /\ ~HasUser(req'.id))
          => (resp'.status = 404 /\ tables' = tables)
       /\ (req'.op = "create_exercise" /\ ~HasWorkout(req'.id))
          => (resp'.status = 404 /\ tables' = tables)]_vars

\* POST /workouts for user 1 was refused after user 1 had been deleted (user 2,
\* created while user 1 existed, is still stored).
C3_Witness ==
    /\ req.op = "create_workout"
    /\ req.id = 1
    /\ resp.status = 404
    /\ Len(users) = 1
    /\ users[1].id = 2

\* C4: a PATCH /workouts/{id} answered 200 sets each field the caller sent to
\* the value sent, keeps every other field of the row (id and user_id too),
\* and leaves every other row of every table as it was.
C4_PartialUpdateExact ==
    [][(req'.op = "update_workout" /\ resp'.status = 200)
       => LET id == req'.id
              upd == req'.body
              old == ById(workouts, id)[1]
              new == ById(workouts', id)[1]
              S == {f \in UpdateFields : upd[f] # UNSET}
          IN  /\ \A f \in S : new[f] = upd[f]
              /\ \A f \in (DOMAIN old) \ S : new[f] = old[f]
              /\ DOMAIN new = DOMAIN old
              /\ resp'.body = <<new>>
              /\ Len(workouts') = Len(workouts)
              /\ \A i \in 1..Len(workouts) :
                    workouts[i].id # id => workouts'[i] = workouts[i]
              /\ users' = users
              /\ exercises' = exercises
              /\ meals' = meals]_vars

\* Workout 2 was updated with a new type and an explicit null distance: both
\* changed, the rest of the row and workout 1 did not.
C4_Witness ==
    /\ req.op = "update_workout"
    /\ req.id = 2
    /\ {f \in UpdateFields : req.body[f] # UNSET} = {"type", "distance_km"}
    /\ resp.status = 200
    /\ workouts[2].type = "lift"
    /\ workouts[2].distance_km = NULL
    /\ workouts[2].duration_min = "60"
    /\ workouts[2].is_starred = "true"
    /\ workouts[1].id = 1

\* The rows of a table whose foreign key is k.
Matching(rows, fk, k) == SelectSeq(rows, LAMBDA r : r[fk] = k)

ListedTable ==
    CASE req.op = "get_workouts" -> workouts
      [] req.op = "get_exercises" -> exercises
      [] req.op = "get_meals" -> meals
      [] OTHER -> users

ListedKey == IF req.op = "get_exercises" THEN "workout_id" ELSE "user_id"

IsFilteredList == req.op \in {"get_workouts", "get_exercises", "get_meals"}
IsList == req.op = "get_users" \/ IsFilteredList

\* C5: with default pagination, a list request carrying the filter value k
\* (0 included) returns exactly the rows whose foreign key is k; without the
\* parameter it returns every row.
C5_FilterExact ==
    (IsFilteredList /\ req.skip = DefaultSkip /\ req.limit = DefaultLimit)
    => /\ resp.status = 200
       /\ \A k \in req.filter : resp.body = Matching(ListedTable, ListedKey, k)
       /\ req.filter = {} => resp.body = ListedTable

\* The same for the filter values other than 0.
C5_FilterExactNonZero ==
    (IsFilteredList /\ req.skip = DefaultSkip /\ req.limit = DefaultLimit)
    => /\ resp.status = 200
       /\ \A k \in req.filter : k # 0 => resp.body = Matching(ListedTable, ListedKey, k)
       /\ req.filter = {} => resp.body = ListedTable

C7_DuplicateGoogleIdRejected ==
    [][\A u \in UserCreates :
          (/\ create_user(u)
           /\ u.google_id # NULL
           /\ \E x \in Range(users) : x.google_id = u.google_id
           /\ \A x \in Range(users) : x.email # u.email)
          => /\ resp'.status \in 400..499
             /\ resp'.detail # ""
             /\ users' = users]_vars

\* C8: a POST /users in flight that reaches its commit after another request
\* has registered the same email is answered 400 "Email already registered",
\* never with a server error, and adds no row.
C8_ConcurrentDuplicateEmail ==
    [][\A c \in Clients :
          (/\ finish_create_user(c)
           /\ \E x \in Range(users) : x.email = pend[c].arg.email)
          => /\ resp'.status = 400
             /\ resp'.detail = "Email already registered"
             /\ users' = users]_vars

\* C9: a PATCH /workouts/{id} answered with an error status leaves the stored
\* workouts as they were.
C9_UpdateAllOrNothing ==
    [][(req'.op = "update_workout" /\ resp'.status >= 400)
       => workouts' = workouts]_vars

\* C10: in every reachable store, with requests interleaved, every workout and
\* meal names an existing user and every exercise an existing workout.
C10_ReferentialIntegrity == NoOrphans

====
